---- MODULE Spec2Model ----
(***************************************************************************)
(* Model of myproject/users/views.py: the register, login and logout views *)
(* of the django-notes project, together with the parts of Django they     *)
(* call (UserCreationForm, AuthenticationForm, login, logout, the user     *)
(* table with its unique username column, the session's authenticated      *)
(* user).                                                                  *)
(*                                                                         *)
(* Requests are served concurrently.  A handler is one atomic step except  *)
(* for a register POST with a valid form: between form.is_valid() (a       *)
(* SELECT on the user table) and form.save() (an INSERT) requests of other *)
(* server workers may run, so that handler is two steps.  The other        *)
(* handlers read the user table once and write only their own session.     *)
(***************************************************************************)
EXTENDS Integers, Sequences, FiniteSets, Bags, TLC

\* Bound of the model: how many register POSTs the server's workers can hold
\* between is_valid() and save() at the same time.
NumWorkers == 2

\* The browser sessions that send requests.
Sessions == {"s1", "s2"}
Usernames == {"alice", "bob"}
Passwords == {"pw1", "pw2"}
Methods == {"GET", "POST", "PUT"}

\* request.POST of a register submission and of a login submission.
RegisterData == [username : Usernames, password1 : Passwords, password2 : Passwords]
LoginData == [username : Usernames, password : Passwords]
\* The empty request.POST of a request that submits nothing.
NoData == <<>>

\* The session holds no authenticated user (AnonymousUser).
Anonymous == 0

VARIABLES
    users,      \* the user table: row i is the user with primary key i
    session,    \* session[s]: primary key of the user session s is logged in as, or Anonymous
    inflight,   \* bag of the register POSTs that passed is_valid() and have not reached save()
    last,       \* the handler step taken last: its request and the response it produced
    loggedOut   \* loggedOut[s]: a logout POST of s was handled and no login of s since

vars == <<users, session, inflight, last, loggedOut>>

NoRequest ==
    [view |-> "none", method |-> "none", session |-> "", user |-> Anonymous,
     data |-> NoData, step |-> "none",
     response |-> [kind |-> "none", target |-> "", bound |-> FALSE, errors |-> FALSE]]

----------------------------------------------------------------------------
(* Responses and forms *)

\* redirect('posts:list')
redirect(to) == [kind |-> "redirect", target |-> to, bound |-> FALSE, errors |-> FALSE]

\* render(request, template, {'form': form})
render(template, form) ==
    [kind |-> "render", target |-> template, bound |-> form.bound, errors |-> form.errors]

\* The view fell off its end and returned None: Django has no response to send.
ReturnedNone == [kind |-> "none", target |-> "", bound |-> FALSE, errors |-> FALSE]

\* form.save() raised IntegrityError and the view does not catch it.
UnhandledError == [kind |-> "error", target |-> "IntegrityError", bound |-> FALSE, errors |-> FALSE]

\* The handler has not returned yet.
Pending == [kind |-> "pending", target |-> "", bound |-> FALSE, errors |-> FALSE]

\* UserCreationForm() / AuthenticationForm(): an unbound form has no data and no errors.
UnboundForm == [bound |-> FALSE, errors |-> FALSE]

\* A form bound to request.POST; errors is set by validation.
BoundForm(valid) == [bound |-> TRUE, errors |-> ~valid]

HasUsername(us, name) == \E i \in 1..Len(us) : us[i].username = name

UserCreationForm_ignores_duplicate(us, data) ==
    data.password1 = data.password2

\* UserCreationForm(request.POST).is_valid(): username not taken, passwords equal.
UserCreationForm_is_valid(us, data) ==
    /\ ~HasUsername(us, data.username)
    /\ data.password1 = data.password2

authenticate_username_only(us, data) ==
    {i \in 1..Len(us) : us[i].username = data.username}

\* authenticate(username, password), as AuthenticationForm.clean() calls it.
authenticate(us, data) ==
    {i \in 1..Len(us) : us[i].username = data.username /\ us[i].password = data.password}

\* AuthenticationForm(data=request.POST).is_valid()
AuthenticationForm_is_valid(us, data) == authenticate(us, data) # {}

\* form.get_user() of a valid AuthenticationForm
get_user(us, data) == CHOOSE i \in authenticate(us, data) : TRUE

save_uncommitted(us, data) == us

\* form.save(): INSERT the new user row.
save(us, data) == Append(us, [username |-> data.username, password |-> data.password1])

\* Primary key form.save() gives the new user.
NewPk(us) == Len(us) + 1

login_keeps_current(sess, s, pk) ==
    IF sess[s] # Anonymous THEN sess ELSE [sess EXCEPT ![s] = pk]

\* login(request, user)
login(sess, s, pk) == [sess EXCEPT ![s] = pk]

logout_noop(sess, s) == sess

\* logout(request)
logout(sess, s) == [sess EXCEPT ![s] = Anonymous]

Request(view, method, s, data, step, response) ==
    [view |-> view, method |-> method, session |-> s, user |-> session[s],
     data |-> data, step |-> step, response |-> response]

----------------------------------------------------------------------------
Init ==
    /\ users = <<>>
    /\ session = [s \in Sessions |-> Anonymous]
    /\ inflight = EmptyBag
    /\ last = NoRequest
    /\ loggedOut = [s \in Sessions |-> FALSE]

(* register_view *)

\* Not POST: the else branch builds an unbound form and the page is rendered.
register_get(s, m) ==
    /\ m # "POST"
    /\ last' = Request("register", m, s, NoData, "whole",
                       render("users/register.html", UnboundForm))
    /\ UNCHANGED <<users, session, inflight, loggedOut>>

\* POST, form.is_valid() is False: falls through to render with the bound form.
register_post_invalid(s, data) ==
    /\ ~UserCreationForm_is_valid(users, data)
    /\ last' = Request("register", "POST", s, data, "whole",
                       render("users/register.html", BoundForm(FALSE)))
    /\ UNCHANGED <<users, session, inflight, loggedOut>>

\* POST, form.is_valid() is True: the handler goes on to form.save().
register_post_is_valid(s, data) ==
    /\ BagCardinality(inflight) < NumWorkers
    /\ UserCreationForm_is_valid(users, data)
    /\ inflight' = inflight (+) SetToBag({[session |-> s, data |-> data]})
    /\ last' = Request("register", "POST", s, data, "is_valid", Pending)
    /\ UNCHANGED <<users, session, loggedOut>>

\* login(request, form.save()); return redirect('posts:list')
register_post_save(req) ==
    /\ BagIn(req, inflight)
    /\ ~HasUsername(users, req.data.username)
    /\ users' = save(users, req.data)
    /\ session' = login(session, req.session, NewPk(users))
    /\ loggedOut' = [loggedOut EXCEPT ![req.session] = FALSE]
    /\ last' = Request("register", "POST", req.session, req.data,
                       "save", redirect("posts:list"))
    /\ inflight' = inflight (-) SetToBag({req})

\* form.save() when the username was inserted meanwhile: the unique column
\* rejects the row, IntegrityError leaves the view.
register_post_save_raises(req) ==
    /\ BagIn(req, inflight)
    /\ HasUsername(users, req.data.username)
    /\ last' = Request("register", "POST", req.session, req.data,
                       "save", UnhandledError)
    /\ inflight' = inflight (-) SetToBag({req})
    /\ UNCHANGED <<users, session, loggedOut>>

(* login_view *)

\* Not POST: unbound AuthenticationForm, page rendered.
login_get(s, m) ==
    /\ m # "POST"
    /\ last' = Request("login", m, s, NoData, "whole",
                       render("users/login.html", UnboundForm))
    /\ UNCHANGED <<users, session, inflight, loggedOut>>

\* POST, form valid: login(request, form.get_user()); redirect.
login_post_valid(s, data) ==
    /\ AuthenticationForm_is_valid(users, data)
    /\ session' = login(session, s, get_user(users, data))
    /\ loggedOut' = [loggedOut EXCEPT ![s] = FALSE]
    /\ last' = Request("login", "POST", s, data, "whole", redirect("posts:list"))
    /\ UNCHANGED <<users, inflight>>

login_post_invalid_redirects(s, data) ==
    /\ ~AuthenticationForm_is_valid(users, data)
    /\ last' = Request("login", "POST", s, data, "whole", redirect("posts:list"))
    /\ UNCHANGED <<users, session, inflight, loggedOut>>

\* POST, form invalid: falls through to render with the bound form.
login_post_invalid(s, data) ==
    /\ ~AuthenticationForm_is_valid(users, data)
    /\ last' = Request("login", "POST", s, data, "whole",
                       render("users/login.html", BoundForm(FALSE)))
    /\ UNCHANGED <<users, session, inflight, loggedOut>>

(* logout_view *)

\* POST: logout(request); return redirect('posts:list')
logout_post(s) ==
    /\ session' = logout(session, s)
    /\ loggedOut' = [loggedOut EXCEPT ![s] = TRUE]
    /\ last' = Request("logout", "POST", s, NoData, "whole", redirect("posts:list"))
    /\ UNCHANGED <<users, inflight>>

logout_on_any_method(s, m) ==
    /\ m # "POST"
    /\ session' = logout(session, s)
    /\ last' = Request("logout", m, s, NoData, "whole", redirect("posts:list"))
    /\ UNCHANGED <<users, inflight, loggedOut>>

\* Not POST: the if is skipped and the function ends without a return.
logout_other(s, m) ==
    /\ m # "POST"
    /\ last' = Request("logout", m, s, NoData, "whole", ReturnedNone)
    /\ UNCHANGED <<users, session, inflight, loggedOut>>

Next ==
    \/ \E s \in Sessions, m \in Methods : register_get(s, m)
    \/ \E s \in Sessions, data \in RegisterData : register_post_invalid(s, data)
    \/ \E s \in Sessions, data \in RegisterData : register_post_is_valid(s, data)
    \/ \E req \in BagToSet(inflight) : register_post_save(req)
    \/ \E req \in BagToSet(inflight) : register_post_save_raises(req)
    \/ \E s \in Sessions, m \in Methods : login_get(s, m)
    \/ \E s \in Sessions, data \in LoginData : login_post_valid(s, data)
    \/ \E s \in Sessions, data \in LoginData : login_post_invalid(s, data)
    \/ \E s \in Sessions : logout_post(s)
    \/ \E s \in Sessions, m \in Methods : logout_other(s, m)

Spec == Init /\ [][Next]_vars

----------------------------------------------------------------------------
(* Vocabulary of the properties, stated on the user table and the request  *)
(* and not through the forms' own validation.                              *)

\* Some stored user has this username.
Taken(us, name) == \E i \in DOMAIN us : us[i].username = name

\* The stored users whose username and password are the submitted ones.
Matching(us, data) ==
    {i \in DOMAIN us : us[i].username = data.username /\ us[i].password = data.password}

IsRedirectTo(r, to) == r.kind = "redirect" /\ r.target = to

IsPageWithErrors(r, template) ==
    r.kind = "render" /\ r.target = template /\ r.bound /\ r.errors

\* C1: every GET request, to any of the three views, is answered with a
\* rendered page carrying an unbound form.
C1_GetRendersUnboundForm ==
    last.method = "GET" => (last.response.kind = "render" /\ ~last.response.bound)

\* C2: a register POST whose form was valid appends exactly one user, the
\* submitted username, logs the session in as that user and redirects to
\* posts:list.
C2_ValidRegisterPost ==
    [][(last'.view = "register" /\ last'.method = "POST" /\ last'.step = "save")
        => /\ Len(users') = Len(users) + 1
           /\ SubSeq(users', 1, Len(users)) = users
           /\ users'[Len(users')].username = last'.data.username
           /\ session'[last'.session] = Len(users')
           /\ IsRedirectTo(last'.response, "posts:list")]_vars

\* C3: a login POST whose credentials match a stored user leaves the session
\* logged in as that user, whoever it held before, leaves the user table
\* unchanged and redirects to posts:list.
C3_ValidLoginPost ==
    [][(last'.view = "login" /\ last'.method = "POST" /\ Matching(users, last'.data) # {})
        => /\ session'[last'.session] \in Matching(users, last'.data)
           /\ users' = users
           /\ IsRedirectTo(last'.response, "posts:list")]_vars

\* C3 witness: a valid login POST replaced the user the session was logged in as.
C3_Witness ==
    /\ last.view = "login" /\ last.method = "POST"
    /\ last.response.kind = "redirect"
    /\ last.user # Anonymous
    /\ session[last.session] # last.user
    /\ session[last.session] \in Matching(users, last.data)

\* C4: a logout POST leaves the session anonymous, redirects to posts:list
\* and leaves the user table unchanged.
C4_LogoutPost ==
    [][(last'.view = "logout" /\ last'.method = "POST")
        => /\ session'[last'.session] = Anonymous
           /\ users' = users
           /\ IsRedirectTo(last'.response, "posts:list")]_vars

\* C4 witness: a logout POST was handled for a session that was logged in.
C4_Witness ==
    /\ last.view = "logout" /\ last.method = "POST"
    /\ last.user # Anonymous
    /\ session[last.session] = Anonymous

\* C5: a register POST with a taken username or unequal passwords creates no
\* user, leaves every session as it was and returns the register page with
\* the bound form and its errors.
C5_InvalidRegisterPost ==
    [][(/\ last'.view = "register" /\ last'.method = "POST" /\ last'.step # "save"
        /\ \/ Taken(users, last'.data.username)
           \/ last'.data.password1 # last'.data.password2)
        => /\ users' = users
           /\ session' = session
           /\ IsPageWithErrors(last'.response, "users/register.html")]_vars

\* C5 witness: a register POST with equal passwords was refused for its
\* taken username, by a session that is logged in.
C5_Witness ==
    /\ last.view = "register" /\ last.method = "POST" /\ last.step = "whole"
    /\ last.data.password1 = last.data.password2
    /\ Taken(users, last.data.username)
    /\ last.response.errors
    /\ session[last.session] # Anonymous

\* C6: a login POST whose credentials match no stored user leaves every
\* session and the user table as they were and returns the login page with
\* the bound form and its errors.
C6_InvalidLoginPost ==
    [][(last'.view = "login" /\ last'.method = "POST" /\ Matching(users, last'.data) = {})
        => /\ users' = users
           /\ session' = session
           /\ IsPageWithErrors(last'.response, "users/login.html")]_vars

\* C6 witness: a login POST with the wrong password of an existing user was
\* refused, by a session that is logged in.
C6_Witness ==
    /\ last.view = "login" /\ last.method = "POST"
    /\ Taken(users, last.data.username)
    /\ Matching(users, last.data) = {}
    /\ last.response.errors
    /\ session[last.session] # Anonymous

\* C7: no two stored users share a username, and every register POST that
\* has returned ended in a rendered page or a redirect, never in an
\* unhandled error.
C7_UniqueUsernamesNoUnhandledError ==
    /\ \A i, j \in DOMAIN users : users[i].username = users[j].username => i = j
    /\ (last.view = "register" /\ last.method = "POST" /\ last.step # "is_valid")
        => last.response.kind \in {"render", "redirect"}

\* C8: a request whose method is not POST changes neither the user table nor
\* any session.
C8_NonPostChangesNothing ==
    [][last'.method # "POST" => (users' = users /\ session' = session)]_vars

\* C8 witness: a logout request with another method than POST was handled
\* and its session is still logged in.
C8_Witness ==
    /\ last.view = "logout" /\ last.method \in {"GET", "PUT"}
    /\ last.user # Anonymous
    /\ session[last.session] = last.user

\* C9: after a logout POST the session is anonymous, and it stays so until a
\* register POST with a valid form or a login POST with matching credentials
\* of that session.
C9_StaysAnonymous ==
    /\ [](\A s \in Sessions : loggedOut[s] => session[s] = Anonymous)
    /\ [][\A s \in Sessions :
            (loggedOut[s] /\ session'[s] # Anonymous)
            => /\ last'.session = s /\ last'.method = "POST"
               /\ \/ last'.view = "register" /\ last'.step = "save"
                  \/ last'.view = "login" /\ Matching(users, last'.data) # {}]_vars

\* C9 witness: after its logout POST a session sent a login POST with a wrong
\* password for an existing user, and is still anonymous.
C9_Witness ==
    /\ last.view = "login" /\ last.method = "POST"
    /\ loggedOut[last.session]
    /\ Taken(users, last.data.username)
    /\ Matching(users, last.data) = {}
    /\ session[last.session] = Anonymous

\* C10: every session is anonymous or logged in as a user of the user table.
C10_SessionUserStored ==
    \A s \in Sessions : session[s] = Anonymous \/ session[s] \in DOMAIN users

\* C10 witness: the two sessions are logged in as two different stored users.
C10_Witness ==
    /\ session["s1"] # Anonymous /\ session["s2"] # Anonymous
    /\ session["s1"] # session["s2"]
    /\ Len(users) = 2

====
